---- MODULE Spec2Model ----
(***************************************************************************)
(* A model of src/src/fetch-interceptor.ts: the header redactor, the token *)
(* claim parser, the body classifier and decoder, the per-call capture     *)
(* orchestrator and the install / restore lifecycle of the process-wide    *)
(* fetch slot.                                                             *)
(*                                                                         *)
(* JavaScript strings are TLA+ strings (TLC treats them as sequences of    *)
(* one-character strings).  JavaScript values are records                  *)
(*     [ty, text, members]                                                 *)
(* where ty is the typeof-like tag, text is the string itself for a string *)
(* and the JSON.stringify output for every other value, and members is the *)
(* ordered list of own properties of an object.                            *)
(***************************************************************************)
EXTENDS Integers, Sequences, FiniteSets, TLC

\* F applied to x: a name for a value that is used more than once.
Bind(x, F(_)) == F(x)

(***************************************************************************)
(* Strings                                                                 *)
(***************************************************************************)
UpperLetters == "ABCDEFGHIJKLMNOPQRSTUVWXYZ"

LowerLetters == "abcdefghijklmnopqrstuvwxyz"

Digits == "0123456789"

\* The least element of a set of numbers, 0 for the empty set.
Least(S) == IF S = {} THEN 0 ELSE CHOOSE j \in S : \A k \in S : j <= k

IndexFrom(s, c, i) == Least({j \in i..Len(s) : SubSeq(s, j, j) = c})

\* Index of the first occurrence of the one-character string c in s, 0 when
\* absent (String.prototype.indexOf, plus one).
IndexOf(s, c) == IndexFrom(s, c, 1)

UpperSet == {SubSeq(UpperLetters, i, i) : i \in 1..Len(UpperLetters)}

LowerOf == [c \in UpperSet |-> SubSeq(LowerLetters, IndexOf(UpperLetters, c),
                                               IndexOf(UpperLetters, c))]

LowerChar(c) == IF c \in UpperSet THEN LowerOf[c] ELSE c

RECURSIVE toLowerCase(_)
\* String.prototype.toLowerCase on ASCII text, a half at a time.
toLowerCase(s) ==
    IF Len(s) <= 1 THEN LowerChar(s)
    ELSE toLowerCase(SubSeq(s, 1, Len(s) \div 2))
            \o toLowerCase(SubSeq(s, Len(s) \div 2 + 1, Len(s)))

\* String.prototype.includes.
includes(s, sub) ==
    \E i \in 1..(Len(s) - Len(sub) + 1) : SubSeq(s, i, i + Len(sub) - 1) = sub

startsWith(s, p) == Len(s) >= Len(p) /\ SubSeq(s, 1, Len(p)) = p

Drop(s, n) == SubSeq(s, n + 1, Len(s))

\* String.prototype.substring(0, n).
substring0(s, n) == SubSeq(s, 1, IF Len(s) < n THEN Len(s) ELSE n)

RECURSIVE split(_, _)
\* String.prototype.split on a one-character separator.
split(s, sep) ==
    Bind(IndexOf(s, sep),
         LAMBDA i : IF i = 0 THEN <<s>>
                    ELSE <<SubSeq(s, 1, i - 1)>> \o split(Drop(s, i), sep))

RECURSIVE replaceAll(_, _, _)
\* String.prototype.replace with a global one-character pattern.
replaceAll(s, from, to) ==
    IF Len(s) <= 1 THEN (IF s = from THEN to ELSE s)
    ELSE replaceAll(SubSeq(s, 1, Len(s) \div 2), from, to)
            \o replaceAll(SubSeq(s, Len(s) \div 2 + 1, Len(s)), from, to)

RECURSIVE repeat(_, _)
repeat(c, n) ==
    IF n <= 0 THEN "" ELSE IF n = 1 THEN c
    ELSE repeat(c, n \div 2) \o repeat(c, n - (n \div 2))

WhiteSpace == {" ", "\t", "\n", "\r"}

\* The length of the longest prefix of s whose characters are all in set.
RunLength(s, set) ==
    Least({j \in 1..(Len(s) + 1) : j > Len(s) \/ SubSeq(s, j, j) \notin set}) - 1

\* s without its leading white space.
SkipWs(s) == Drop(s, RunLength(s, WhiteSpace))

(***************************************************************************)
(* JavaScript values                                                       *)
(***************************************************************************)
RECURSIVE JsonEscape(_)
\* The escaping JSON.stringify applies inside a string literal.
EscapeChar(c) ==
    CASE c = "\"" -> "\\\""
      [] c = "\\" -> "\\\\"
      [] c = "\n" -> "\\n"
      [] c = "\t" -> "\\t"
      [] c = "\r" -> "\\r"
      [] c = "\f" -> "\\f"
      [] OTHER -> c

JsonEscape(s) ==
    IF s = "" THEN ""
    ELSE IF Len(s) = 1 THEN EscapeChar(s)
    ELSE JsonEscape(SubSeq(s, 1, Len(s) \div 2))
            \o JsonEscape(SubSeq(s, Len(s) \div 2 + 1, Len(s)))

JsonQuote(s) == "\"" \o JsonEscape(s) \o "\""

JsString(s) == [ty |-> "string", text |-> s, members |-> <<>>]

JsNumber(t) == [ty |-> "number", text |-> t, members |-> <<>>]

JsBool(b) == [ty |-> "boolean", text |-> IF b THEN "true" ELSE "false", members |-> <<>>]

JsNull == [ty |-> "null", text |-> "null", members |-> <<>>]

\* JSON.stringify of a value nested in an object.
Nested(v) == IF v.ty = "string" THEN JsonQuote(v.text) ELSE v.text

RECURSIVE StringifyMembers(_)
StringifyMembers(ms) ==
    IF ms = <<>> THEN ""
    ELSE JsonQuote(ms[1].k) \o ":" \o ms[1].v
            \o (IF Len(ms) > 1 THEN "," ELSE "") \o StringifyMembers(Tail(ms))

\* A member keeps its own serialisation in v and its typeof in ty.
Member(k, v) == [k |-> k, v |-> Nested(v), ty |-> v.ty, raw |-> v.text]

RECURSIVE SetMember(_, _)
\* obj[k] = v on an ordered property list: overwrite in place or append.
SetMember(ms, m) ==
    IF ms = <<>> THEN <<m>>
    ELSE IF ms[1].k = m.k THEN <<m>> \o Tail(ms)
    ELSE <<ms[1]>> \o SetMember(Tail(ms), m)

JsObject(ms) ==
    [ty |-> "object", text |-> "{" \o StringifyMembers(ms) \o "}", members |-> ms]

\* ToBoolean.
Truthy(v) ==
    CASE v.ty = "string" -> v.text # ""
      [] v.ty = "number" -> v.text \notin {"0", "-0"}
      [] v.ty = "boolean" -> v.text = "true"
      [] v.ty = "null" -> FALSE
      [] v.ty = "undefined" -> FALSE
      [] OTHER -> TRUE

(***************************************************************************)
(* JSON.parse, on the JSON subset this model draws its texts from:         *)
(* null, true, false, integers, strings without escapes, objects; white    *)
(* space between tokens.  Every other text is a SyntaxError.               *)
(***************************************************************************)
Fail == [ok |-> FALSE, val |-> JsNull, rest |-> ""]

Ok(val, rest) == [ok |-> TRUE, val |-> val, rest |-> rest]

DigitChars == {"0", "1", "2", "3", "4", "5", "6", "7", "8", "9"}

\* The length of the run of digits s starts with.
DigitRun(s) == RunLength(s, DigitChars)

\* A number: digits of length n at the head of body, after the sign.
NumberAt(neg, body, n) ==
    IF n = 0 \/ (n > 1 /\ startsWith(body, "0")) THEN Fail
    ELSE IF Len(body) > n /\ SubSeq(body, n + 1, n + 1) \in {".", "e", "E"} THEN Fail
    ELSE Ok(JsNumber(IF neg /\ SubSeq(body, 1, n) = "0" THEN "0"
                     ELSE (IF neg THEN "-" ELSE "") \o SubSeq(body, 1, n)),
            Drop(body, n))

SignedNumber(neg, body) == NumberAt(neg, body, DigitRun(body))

ParseNumber(s) ==
    IF startsWith(s, "-") THEN SignedNumber(TRUE, Drop(s, 1))
    ELSE SignedNumber(FALSE, s)

ControlChars == {"\t", "\n", "\r", "\f"}

\* A string whose closing quote is the i-th character of body.
StringAt(body, i) ==
    IF i = 0 THEN Fail
    ELSE IF \E j \in 1..(i - 1) : SubSeq(body, j, j) \in ControlChars \cup {"\\"}
    THEN Fail
    ELSE Ok(JsString(SubSeq(body, 1, i - 1)), Drop(body, i))

ParseString(s) ==
    IF ~startsWith(s, "\"") THEN Fail
    ELSE StringAt(Drop(s, 1), IndexOf(Drop(s, 1), "\""))

RECURSIVE ParseValue(_)
RECURSIVE ParseMembers(_, _)
\* After a member's value v: a comma and more members, or the closing brace.
AfterMember(ms, v, rest) ==
    IF startsWith(rest, ",") THEN ParseMembers(Drop(rest, 1), ms)
    ELSE IF startsWith(rest, "}") THEN Ok(JsObject(ms), Drop(rest, 1))
    ELSE Fail

\* A member whose key k has been read, rest starting at its colon.
MemberValue(acc, k, rest) ==
    IF ~k.ok \/ ~startsWith(rest, ":") THEN Fail
    ELSE Bind(ParseValue(SkipWs(Drop(rest, 1))),
              LAMBDA v : IF ~v.ok THEN Fail
                         ELSE AfterMember(SetMember(acc, Member(k.val.text, v.val)),
                                          v, SkipWs(v.rest)))

ParseMembers(s, acc) ==
    Bind(ParseString(SkipWs(s)), LAMBDA k : MemberValue(acc, k, SkipWs(k.rest)))

\* An object, s following its opening brace.
ParseObject(s) ==
    IF startsWith(s, "}") THEN Ok(JsObject(<<>>), Drop(s, 1))
    ELSE ParseMembers(s, <<>>)

ParseValue(s) ==
    IF startsWith(s, "null") THEN Ok(JsNull, Drop(s, 4))
    ELSE IF startsWith(s, "true") THEN Ok(JsBool(TRUE), Drop(s, 4))
    ELSE IF startsWith(s, "false") THEN Ok(JsBool(FALSE), Drop(s, 5))
    ELSE IF startsWith(s, "\"") THEN ParseString(s)
    ELSE IF startsWith(s, "{") THEN ParseObject(SkipWs(Drop(s, 1)))
    ELSE ParseNumber(s)

\* The whole text must be one value.
WholeValue(r) ==
    IF r.ok /\ SkipWs(r.rest) = "" THEN [ok |-> TRUE, val |-> r.val]
    ELSE [ok |-> FALSE, val |-> JsNull]

\* JSON.parse: ok = FALSE stands for the SyntaxError it throws.
JSONParse(text) == WholeValue(ParseValue(SkipWs(text)))

SyntaxErrorMessage == "Unexpected token in JSON"

(***************************************************************************)
(* Bytes and their decoding                                                *)
(***************************************************************************)
\* The printable ASCII characters of codes 32..95 and 97..126 (a TLA+ string
\* cannot hold the backquote, code 96).
PrintableLow == " !\"#$%&'()*+,-./0123456789:;<=>?@ABCDEFGHIJKLMNOPQRSTUVWXYZ[\\]^_"

PrintableHigh == "abcdefghijklmnopqrstuvwxyz{|}~"

\* One byte decoded as UTF-8 text.  Tab, line feed and carriage return are
\* themselves; every other byte outside the two ranges is written "\f", the
\* one non-printing character of this model.
CharOf(byte) ==
    CASE byte >= 32 /\ byte <= 95 -> SubSeq(PrintableLow, byte - 31, byte - 31)
      [] byte >= 97 /\ byte <= 126 -> SubSeq(PrintableHigh, byte - 96, byte - 96)
      [] byte = 9 -> "\t"
      [] byte = 10 -> "\n"
      [] byte = 13 -> "\r"
      [] OTHER -> "\f"

RECURSIVE DecodeUtf8(_)
\* TextDecoder.decode / Buffer.toString('utf8').
DecodeUtf8(bytes) ==
    IF bytes = <<>> THEN ""
    ELSE IF Len(bytes) = 1 THEN CharOf(bytes[1])
    ELSE DecodeUtf8(SubSeq(bytes, 1, Len(bytes) \div 2))
            \o DecodeUtf8(SubSeq(bytes, Len(bytes) \div 2 + 1, Len(bytes)))

Base64Alphabet == UpperLetters \o LowerLetters \o Digits \o "+/"

RECURSIVE Sextets(_)
\* The 6-bit values of the characters of the alphabet; others are skipped.
Sextets(s) ==
    IF s = "" THEN <<>>
    ELSE IF Len(s) = 1
    THEN Bind(IndexOf(Base64Alphabet, s),
              LAMBDA i : IF i = 0 THEN <<>> ELSE <<i - 1>>)
    ELSE Sextets(SubSeq(s, 1, Len(s) \div 2))
            \o Sextets(SubSeq(s, Len(s) \div 2 + 1, Len(s)))

RECURSIVE SextetsToBytes(_)
\* Four sextets are three bytes; what is left of a last group is cut.
SextetsToBytes(q) ==
    IF Len(q) > 4
    THEN SextetsToBytes(SubSeq(q, 1, 4 * ((Len(q) + 7) \div 8)))
            \o SextetsToBytes(SubSeq(q, 4 * ((Len(q) + 7) \div 8) + 1, Len(q)))
    ELSE IF Len(q) = 4
    THEN Bind(q[1] * 262144 + q[2] * 4096 + q[3] * 64 + q[4],
              LAMBDA n : <<n \div 65536, (n \div 256) % 256, n % 256>>)
    ELSE IF Len(q) = 3
    THEN Bind(q[1] * 4096 + q[2] * 64 + q[3],
              LAMBDA n : <<n \div 1024, (n \div 4) % 256>>)
    ELSE IF Len(q) = 2
    THEN <<(q[1] * 64 + q[2]) \div 16>>
    ELSE <<>>

\* Buffer.from(s, 'base64').
Base64Decode(s) == SextetsToBytes(Sextets(s))

(***************************************************************************)
(* Token claim parser                                                      *)
(***************************************************************************)
\* token.replace(/^Bearer\s+/i, '')
StripBearer(token) ==
    IF startsWith(toLowerCase(token), "bearer")
       /\ SkipWs(Drop(token, 6)) # Drop(token, 6)
    THEN SkipWs(Drop(token, 6)) ELSE token

\* Lines 36-39: pad, map the URL-safe alphabet, decode.
DecodePayload(payload) ==
    DecodeUtf8(Base64Decode(
        replaceAll(replaceAll(payload \o repeat("=", (4 - (Len(payload) % 4)) % 4),
                              "-", "+"), "_", "/")))

\* Lines 28-41 on the parts of the token.
ClaimsOfParts(parts) ==
    IF Len(parts) # 3 THEN [ok |-> FALSE, val |-> JsNull]
    ELSE JSONParse(DecodePayload(parts[2]))

\* parseJWTClaims: [ok, val]; ok = FALSE is the null it returns.
parseJWTClaims(token) == ClaimsOfParts(split(StripBearer(token), "."))

(***************************************************************************)
(* Header redactor                                                         *)
(***************************************************************************)
SENSITIVE_HEADERS ==
    <<"authorization", "cookie", "set-cookie", "x-api-key", "x-auth-token",
      "x-access-token", "x-kubiks-key", "bearer", "proxy-authorization",
      "www-authenticate", "proxy-authenticate">>

REDACTED == "[REDACTED]"

\* A denylist test by equality instead of by substring.
IsSensitiveExact(key) ==
    \E i \in 1..Len(SENSITIVE_HEADERS) : toLowerCase(key) = SENSITIVE_HEADERS[i]

\* SENSITIVE_HEADERS.some(sensitive => lowerKey.includes(sensitive))
SomeSensitive(lowerKey) ==
    \E i \in 1..Len(SENSITIVE_HEADERS) : includes(lowerKey, SENSITIVE_HEADERS[i])

\* Lines 53-54: the test on the lower-cased key.
IsSensitive(key) == SomeSensitive(toLowerCase(key))

RECURSIVE SetPair(_, _, _)
\* obj[k] = v on an ordered string mapping.
SetPair(ps, k, v) ==
    IF ps = <<>> THEN <<[k |-> k, v |-> v]>>
    ELSE IF ps[1].k = k THEN <<[k |-> k, v |-> v]>> \o Tail(ps)
    ELSE <<ps[1]>> \o SetPair(Tail(ps), k, v)

\* Object.entries of a string: its characters under their indices.
StringEntries(s) ==
    [i \in 1..Len(s) |->
        [k |-> ToString(i - 1), v |-> "", ty |-> "string", raw |-> SubSeq(s, i, i)]]

\* Object.entries(claims).
Entries(v) ==
    CASE v.ty = "object" -> v.members
      [] v.ty = "string" -> StringEntries(v.text)
      [] OTHER -> <<>>

RECURSIVE AddClaims(_, _)
\* The loop of lines 60-64: scalar claims, stringified, under token.<name>.
AddClaims(jwtClaims, entries) ==
    IF entries = <<>> THEN jwtClaims
    ELSE AddClaims(
            IF entries[1].ty \in {"string", "number", "boolean"}
            THEN SetPair(jwtClaims, "token." \o entries[1].k, entries[1].raw)
            ELSE jwtClaims,
            Tail(entries))

\* The claims one header contributes (lines 56-66).
HeaderClaims(jwtClaims, h) ==
    IF includes(toLowerCase(h.k), "authorization") /\ h.v # ""
    THEN Bind(parseJWTClaims(h.v),
              LAMBDA claims : IF claims.ok /\ Truthy(claims.val)
                              THEN AddClaims(jwtClaims, Entries(claims.val))
                              ELSE jwtClaims)
    ELSE jwtClaims

\* The value line 67 leaves under a sensitive key.
RedactedValue(h) == REDACTED

RECURSIVE RedactLoop(_, _, _)
\* for (const key in redactedHeaders), over the copy made on line 49.
RedactLoop(hs, i, jwtClaims) ==
    IF i > Len(hs) THEN [redactedHeaders |-> hs, jwtClaims |-> jwtClaims]
    ELSE IF IsSensitive(hs[i].k)
    THEN RedactLoop([hs EXCEPT ![i].v = RedactedValue(hs[i])], i + 1,
                    HeaderClaims(jwtClaims, hs[i]))
    ELSE RedactLoop(hs, i + 1, jwtClaims)

\* redactSensitiveHeaders works on the copy of line 49; headers is the
\* caller's mapping as the call leaves it.
redactSensitiveHeaders(headers) ==
    Bind(RedactLoop(headers, 1, <<>>),
         LAMBDA r : [redactedHeaders |-> r.redactedHeaders,
                     jwtClaims |-> r.jwtClaims, headers |-> headers])

(***************************************************************************)
(* Header normalisation                                                    *)
(*                                                                         *)
(* A HeadersInit is [kind, entries]: kind is "none" (undefined), "Headers",*)
(* "Array" or "Object"; an entry is [k, v, kty], kty being the typeof of   *)
(* the key (only an array of pairs can carry a key that is not a string). *)
(***************************************************************************)
RECURSIVE NormalizeLoop(_, _)
NormalizeLoop(entries, normalized) ==
    IF entries = <<>> THEN normalized
    ELSE NormalizeLoop(Tail(entries),
            SetPair(normalized, toLowerCase(entries[1].k), entries[1].v))

ToLowerCaseTypeError == "key.toLowerCase is not a function"

\* normalizeHeaders: ok = FALSE is the TypeError of key.toLowerCase() on a
\* key that is not a string (line 319).
normalizeHeaders(headers) ==
    IF headers.kind = "Array"
       /\ \E i \in 1..Len(headers.entries) : headers.entries[i].kty # "string"
    THEN [ok |-> FALSE, val |-> <<>>, msg |-> ToLowerCaseTypeError]
    ELSE [ok |-> TRUE, val |-> NormalizeLoop(headers.entries, <<>>), msg |-> ""]

\* obj[k]: [def, s], def = FALSE for undefined.
Lookup(pairs, k) ==
    IF \E i \in 1..Len(pairs) : pairs[i].k = k
    THEN [def |-> TRUE, s |-> pairs[CHOOSE i \in 1..Len(pairs) : pairs[i].k = k].v]
    ELSE [def |-> FALSE, s |-> ""]

\* getContentType: [ok, ct, msg]; it rethrows what normalizeHeaders throws.
getContentType(headers) ==
    IF headers.kind = "none"
    THEN [ok |-> TRUE, ct |-> [def |-> FALSE, s |-> ""], msg |-> ""]
    ELSE Bind(normalizeHeaders(headers),
              LAMBDA normalized :
                IF ~normalized.ok
                THEN [ok |-> FALSE, ct |-> [def |-> FALSE, s |-> ""],
                      msg |-> normalized.msg]
                ELSE [ok |-> TRUE, ct |-> Lookup(normalized.val, "content-type"),
                      msg |-> ""])

(***************************************************************************)
(* Body classifier and decoder                                             *)
(***************************************************************************)
\* isBinary: nonPrintableCount / bytes.length > 0.3 (NaN > 0.3 is false).
isBinary(bytes) ==
    /\ Len(bytes) > 0
    /\ 10 * Cardinality({i \in 1..Len(bytes) :
                            bytes[i] < 32 /\ bytes[i] \notin {9, 10, 13}})
            > 3 * Len(bytes)

binaryTypes ==
    <<"image/", "video/", "audio/", "application/octet-stream",
      "application/pdf", "application/zip", "multipart/form-data">>

isBinaryContentType(contentType) ==
    \E i \in 1..Len(binaryTypes) :
        includes(toLowerCase(contentType), binaryTypes[i])

\* One name=value piece, i the index of its first "=".
UrlPair(piece, i) ==
    IF piece = "" THEN <<>>
    ELSE IF i = 0 THEN <<[k |-> piece, v |-> ""]>>
    ELSE <<[k |-> SubSeq(piece, 1, i - 1), v |-> Drop(piece, i)]>>

RECURSIVE UrlPairs(_)
\* new URLSearchParams(text), on text without percent escapes: the name=value
\* pieces between "&", "+" read as a space.
UrlPairs(pieces) ==
    IF pieces = <<>> THEN <<>>
    ELSE UrlPair(replaceAll(pieces[1], "+", " "),
                 IndexOf(replaceAll(pieces[1], "+", " "), "="))
         \o UrlPairs(Tail(pieces))

URLSearchParams(text) ==
    UrlPairs(split(IF startsWith(text, "?") THEN Drop(text, 1) ELSE text, "&"))

RECURSIVE FromEntries(_, _)
\* Object.fromEntries / the forEach of lines 203-205: a flat string mapping.
FromEntries(pairs, ms) ==
    IF pairs = <<>> THEN JsObject(ms)
    ELSE FromEntries(Tail(pairs),
            SetMember(ms, Member(pairs[1].k, JsString(pairs[1].v))))

\* try { return JSON.parse(text) } catch { return text }, r being what
\* JSON.parse(text) gives.
LenientJson(r, text) == IF r.ok THEN r.val ELSE JsString(text)

Returned(val) == [ok |-> TRUE, val |-> val, msg |-> ""]

\* The body of parseBodyText's outer try (lines 280-304), r being what
\* JSON.parse(text) gives where a branch calls it: ok = FALSE is the
\* SyntaxError thrown on line 292.
ParseBodyTextBranches(r, text, contentType, lowerContentType) ==
    IF ~contentType.def \/ contentType.s = ""
    THEN Returned(LenientJson(r, text))
    ELSE IF includes(lowerContentType, "application/json")
    THEN [ok |-> r.ok, val |-> r.val,
          msg |-> IF r.ok THEN "" ELSE SyntaxErrorMessage]
    ELSE IF includes(lowerContentType, "application/x-www-form-urlencoded")
    THEN Returned(FromEntries(URLSearchParams(text), <<>>))
    ELSE IF includes(lowerContentType, "text/")
    THEN Returned(JsString(text))
    ELSE Returned(LenientJson(r, text))

ParseBodyTextTry(text, contentType) ==
    ParseBodyTextBranches(JSONParse(text), text, contentType,
                          toLowerCase(contentType.s))

\* parseBodyText without its outer catch: the SyntaxError leaves it.
ParseBodyTextRethrow(r, text) == r

\* The outer catch (lines 305-307): the raw text.
ParseBodyTextCatch(r, text) ==
    IF r.ok THEN r ELSE Returned(JsString(text))

\* parseBodyText: [ok, val, msg]; it returns on every path.
parseBodyText(text, contentType) ==
    ParseBodyTextCatch(ParseBodyTextTry(text, contentType), text)

\* The length of a truncation marker's preview (lines 227, 268).
PreviewLength == 100

Marker(ms) == JsObject(ms)

ErrorMarker(what, msg) ==
    Marker(<<Member("_error", JsString(what)), Member("_message", JsString(msg))>>)

TruncatedPreview(size, text) ==
    Marker(<<Member("_truncated", JsBool(TRUE)),
             Member("_size", JsNumber(ToString(size))),
             Member("_preview", JsString(substring0(text, PreviewLength)))>>)

\* A capture outcome: the tag names the branch that produced val.
Outcome(tag, val) == [tag |-> tag, val |-> val]

\* What the catch of a capture function returns when parseBodyText throws.
Parsed(r, what) ==
    IF r.ok THEN Outcome("parsed", r.val)
    ELSE Outcome("error", ErrorMarker(what, r.msg))

\* The string branch of captureRequestBody (lines 225-230).
CaptureString(text, contentType, maxBodySize) ==
    IF Len(text) > maxBodySize
    THEN Outcome("truncated", TruncatedPreview(Len(text), text))
    ELSE Parsed(parseBodyText(text, contentType), "Failed to capture request body")

\* The buffer branch of captureRequestBody (lines 214-223).
CaptureBuffer(bytes, contentType, maxBodySize) ==
    IF isBinary(bytes)
    THEN Outcome("binary",
            Marker(<<Member("_type", JsString("Binary")),
                     Member("_size", JsNumber(ToString(Len(bytes)))),
                     Member("_note", JsString("Binary data not captured"))>>))
    ELSE Parsed(parseBodyText(DecodeUtf8(bytes), contentType),
                "Failed to capture request body")

\* captureRequestBody (lines 193-235), c being what getContentType gives.
\* A body is [shape, text, pairs, bytes]; a body of another shape (a Blob)
\* is passed through, and serialises as {}.
CaptureByShape(body, c, maxBodySize) ==
        IF ~c.ok
        THEN Outcome("error", ErrorMarker("Failed to capture request body", c.msg))
        ELSE CASE body.shape = "FormData" ->
                    Outcome("formdata",
                        Marker(<<Member("_type", JsString("FormData")),
                                 Member("_note", JsString("FormData not captured (likely contains files)"))>>))
               [] body.shape = "URLSearchParams" ->
                    Outcome("pairs", FromEntries(body.pairs, <<>>))
               [] body.shape = "ReadableStream" ->
                    Outcome("stream",
                        Marker(<<Member("_type", JsString("ReadableStream")),
                                 Member("_note", JsString("Stream not captured"))>>))
               [] body.shape \in {"ArrayBuffer", "Uint8Array"} ->
                    CaptureBuffer(body.bytes, c.ct, maxBodySize)
               [] body.shape = "string" ->
                    CaptureString(body.text, c.ct, maxBodySize)
               [] OTHER -> Outcome("passthrough", JsObject(<<>>))

captureRequestBody(body, headers, maxBodySize) ==
    CaptureByShape(body, getContentType(headers), maxBodySize)

RECURSIVE StrToNat(_, _)
StrToNat(s, acc) ==
    IF s = "" THEN acc
    ELSE StrToNat(Drop(s, 1), 10 * acc + (IndexOf(Digits, SubSeq(s, 1, 1)) - 1))

\* The integer of the n digits at the head of body.
IntAt(neg, body, n) ==
    IF n = 0 THEN [nan |-> TRUE, n |-> 0]
    ELSE [nan |-> FALSE,
          n |-> IF neg THEN 0 - StrToNat(SubSeq(body, 1, n), 0)
                ELSE StrToNat(SubSeq(body, 1, n), 0)]

SignedInt(neg, body) == IntAt(neg, body, DigitRun(body))

TrimmedInt(t) ==
    IF startsWith(t, "-") THEN SignedInt(TRUE, Drop(t, 1))
    ELSE IF startsWith(t, "+") THEN SignedInt(FALSE, Drop(t, 1))
    ELSE SignedInt(FALSE, t)

\* parseInt(s, 10): [nan, n].
parseInt(s) == TrimmedInt(SkipWs(s))

NumberText(num) == IF num.nan THEN "null" ELSE ToString(num.n)

\* `${contentLength}`
NumberString(num) == IF num.nan THEN "NaN" ELSE ToString(num.n)

HeaderValueOr(h, dflt) == IF h.def /\ h.s # "" THEN h.s ELSE dflt

\* response.headers.get(name) || dflt
HeaderOr(headers, name, dflt) == HeaderValueOr(Lookup(headers, name), dflt)

\* The steps of captureResponseBody after the body has been read as text
\* (lines 264-272).
CaptureResponseText(text, contentType, maxBodySize) ==
    IF Len(text) > maxBodySize
    THEN Outcome("truncated", TruncatedPreview(Len(text), text))
    ELSE Parsed(parseBodyText(text, [def |-> TRUE, s |-> contentType]),
                "Failed to capture response body")

ReadErrorMessage == "body stream errored"

Read(o, read) == [tag |-> o.tag, val |-> o.val, read |-> read]

\* captureResponseBody (lines 239-275) on a response [headers, text,
\* textFails, ...]: [tag, val, read], read telling whether response.text()
\* was called.
CaptureResponseSteps(response, contentType, contentLength, maxBodySize) ==
    IF ~contentLength.nan /\ contentLength.n > maxBodySize
    THEN Read(Outcome("truncated",
                Marker(<<Member("_truncated", JsBool(TRUE)),
                         Member("_size", JsNumber(NumberText(contentLength))),
                         Member("_note", JsString("Response too large ("
                            \o NumberString(contentLength) \o " bytes)"))>>)),
              FALSE)
    ELSE IF isBinaryContentType(contentType)
    THEN Read(Outcome("binary",
                Marker(<<Member("_type", JsString("Binary")),
                         Member("_contentType", JsString(contentType)),
                         Member("_size", JsNumber(NumberText(contentLength))),
                         Member("_note", JsString("Binary content not captured"))>>)),
              FALSE)
    ELSE IF response.textFails
    THEN Read(Outcome("error",
                ErrorMarker("Failed to capture response body", ReadErrorMessage)),
              TRUE)
    ELSE Read(CaptureResponseText(response.text, contentType, maxBodySize), TRUE)

captureResponseBody(response, maxBodySize) ==
    CaptureResponseSteps(response,
        HeaderOr(response.headers, "content-type", ""),
        parseInt(HeaderOr(response.headers, "content-length", "0")),
        maxBodySize)

(***************************************************************************)
(* State                                                                   *)
(***************************************************************************)
VARIABLES
    fetch,                \* globalThis.fetch: 0 is the unwrapped transport,
                          \* i > 0 the wrapper installed by handles[i]
    handles,              \* every FetchInterceptor constructed so far:
                          \* [originalFetch, options]
    interceptorInstance,  \* the module's interceptorInstance, 0 for null
    restored,             \* the handles restore() has been called on
    lastCall,             \* the last call through globalThis.fetch: the
                          \* wrappers it ran through, outermost first
    pc,                   \* where the intercepted call stands
    args,                 \* its arguments [input, init]
    span,                 \* its span
    transportCalls,       \* the arguments originalFetch was called with
    transport,            \* what originalFetch did
    reads,                \* clone() and text() calls on the response
    result,               \* what the wrapped fetch gave its caller
    fnIn,                 \* the argument of a function under check
    fnOut                 \* and its result

lifecycleVars == <<fetch, handles, interceptorInstance, restored, lastCall>>

callVars == <<pc, args, span, transportCalls, transport, reads, result>>

fnVars == <<fnIn, fnOut>>

vars == <<lifecycleVars, callVars, fnVars>>

(***************************************************************************)
(* Interceptor configuration                                               *)
(***************************************************************************)
DefaultMaxBodySize == 10000

SmallMaxBodySize == 8

OptionNames == {"captureRequestBody", "captureResponseBody", "captureHeaders", "maxBodySize"}

\* The defaults of the constructor (lines 90-95).
DefaultOptions ==
    [captureRequestBody |-> TRUE, captureResponseBody |-> TRUE,
     captureHeaders |-> TRUE, maxBodySize |-> DefaultMaxBodySize]

\* { ...defaults, ...options }: options is a function on the names given.
MergeOptions(options) ==
    [n \in OptionNames |->
        IF n \in DOMAIN options THEN options[n] ELSE DefaultOptions[n]]

\* The options a caller passes: each flag left out or switched off, the
\* size bound left out or set to a small value.
OptionInputs ==
    UNION {[S -> {FALSE}] : S \in SUBSET {"captureRequestBody", "captureResponseBody", "captureHeaders"}}

WithMaxBodySize(options, n) ==
    [k \in DOMAIN options \cup {"maxBodySize"} |->
        IF k = "maxBodySize" THEN n ELSE options[k]]

AllOptionInputs ==
    OptionInputs \cup {WithMaxBodySize(o, SmallMaxBodySize) : o \in OptionInputs}

(***************************************************************************)
(* URL of a call                                                           *)
(***************************************************************************)
\* The URL whose scheme ends before the c-th character of url.
UrlAt(url, c, authority) ==
    IF c <= 1 \/ ~startsWith(Drop(url, c), "//")
       \/ \E j \in 1..(c - 1) :
            IndexOf(LowerLetters \o UpperLetters, SubSeq(url, j, j)) = 0
    THEN [ok |-> FALSE, protocol |-> "", host |-> ""]
    ELSE [ok |-> TRUE, protocol |-> toLowerCase(SubSeq(url, 1, c - 1)) \o ":",
          host |-> IF IndexOf(authority, "/") = 0 THEN authority
                   ELSE SubSeq(authority, 1, IndexOf(authority, "/") - 1)]

SchemeEnd(url, c) == UrlAt(url, c, Drop(url, c + 2))

\* new URL(url): ok = FALSE is the TypeError for a string that is not an
\* absolute URL; protocol and host as the URL object gives them.
ParseUrl(url) == SchemeEnd(url, IndexOf(url, ":"))

InvalidUrlMessage == "Invalid URL"

\* getPackageVersion(), a fixed string of the build.
PackageVersion == "0.0.0"

\* typeof input === 'string' ? input : input instanceof URL ? input.href : input.url
UrlOf(input) == input.url

(***************************************************************************)
(* Arguments and transport behaviour of the calls checked                  *)
(***************************************************************************)
NoHeaders == [kind |-> "none", entries |-> <<>>]

H(k, v) == [k |-> k, v |-> v, kty |-> "string"]

JwtSub == "Bearer h.eyJzdWIiOiJ1MSJ9.s"

JsonHeaders ==
    [kind |-> "Object", entries |-> <<H("Content-Type", "application/json"),
                                      H("Authorization", JwtSub)>>]

HeaderInits ==
    { NoHeaders,
      JsonHeaders,
      [kind |-> "Headers", entries |-> <<H("content-type", "text/plain")>>],
      [kind |-> "Array", entries |-> <<H("X-Api-Key", "k1")>>],
      [kind |-> "Array", entries |-> <<[k |-> "1", v |-> "x", kty |-> "number"]>>] }

Body(shape, text, pairs, bytes) ==
    [shape |-> shape, text |-> text, pairs |-> pairs, bytes |-> bytes]

NoBody == Body("none", "", <<>>, <<>>)

StringBody(s) == Body("string", s, <<>>, <<>>)

LongText == "{\"key\":\"0123456789\"}"

\* The bytes of {"a":1} followed by those of a long run of digits.
LongBytes == <<123, 34, 97, 34, 58, 49, 50, 51, 52, 53, 54, 55, 56, 57, 125>>

Bodies ==
    { NoBody, StringBody(""), StringBody("0"), StringBody("{\"a\":1}"),
      StringBody("{bad"), StringBody(LongText),
      Body("FormData", "", <<>>, <<>>),
      Body("URLSearchParams", "", <<[k |-> "q", v |-> "tla"], [k |-> "page", v |-> "2"]>>, <<>>),
      Body("ReadableStream", "", <<>>, <<>>),
      Body("Uint8Array", "", <<>>, LongBytes),
      Body("ArrayBuffer", "", <<>>, <<0, 1, 2, 65>>),
      Body("Blob", "", <<>>, <<>>) }

NoInit == [present |-> FALSE, method |-> "", headers |-> NoHeaders, body |-> NoBody]

\* The init arguments: none, an empty one, every shape of headers with one
\* body, every body under JSON headers, and the falsy strings with no
\* headers at all.
Inits ==
    { NoInit,
      [present |-> TRUE, method |-> "", headers |-> NoHeaders, body |-> NoBody] }
    \cup { [present |-> TRUE, method |-> "POST", headers |-> h,
            body |-> StringBody("{\"a\":1}")] : h \in HeaderInits }
    \cup { [present |-> TRUE, method |-> "POST", headers |-> JsonHeaders, body |-> b] :
            b \in Bodies }
    \cup { [present |-> TRUE, method |-> "PUT", headers |-> NoHeaders,
            body |-> StringBody(s)] : s \in {"", "0"} }

Inputs ==
    { [kind |-> "string", url |-> "https://api.example/x"],
      [kind |-> "Request", url |-> "http://localhost:3000/api"],
      [kind |-> "string", url |-> "/x"] }

ResponseTexts == {"", "0", "{\"a\":1}", "{bad", LongText}

ContentTypes == {"", "application/json", "Image/PNG", "text/plain"}

\* A content-length header: absent, the true length, too large, garbage.
ContentLengths(text) == {"", ToString(Len(text)), "99999", "abc"}

ResponseHeaders(ct, cl) ==
    (IF cl = "" THEN <<>> ELSE <<[k |-> "content-length", v |-> cl]>>)
    \o (IF ct = "" THEN <<>> ELSE <<[k |-> "content-type", v |-> ct]>>)
    \o <<[k |-> "set-cookie", v |-> "sid=1"]>>

Response(status, headers, text, textFails, bodyUsed) ==
    [handle |-> "original", status |-> status,
     statusText |-> IF status = 200 THEN "OK" ELSE "Internal Server Error",
     headers |-> headers, text |-> text,
     textFails |-> textFails, bodyUsed |-> bodyUsed]

\* The responses the transport may return: any text under any declared
\* type; one text under any declared length; one whose body fails while it is read; one whose body the
\* transport has already consumed.
Responses ==
    { Response(200, ResponseHeaders(ct, ""), text, FALSE, FALSE) :
        ct \in ContentTypes, text \in ResponseTexts }
    \cup { Response(200, ResponseHeaders("application/json", cl), "{\"a\":1}", FALSE, FALSE) :
            cl \in ContentLengths("{\"a\":1}") }
    \cup { Response(500, ResponseHeaders("text/plain", ""), "oops", TRUE, FALSE),
           Response(200, ResponseHeaders("application/json", ""), "{\"a\":1}", FALSE, TRUE) }

NoResponse == Response(0, <<>>, "", FALSE, FALSE)

TransportErrors == {"fetch failed"}

(***************************************************************************)
(* Capture orchestrator                                                    *)
(***************************************************************************)
NoArgs == [input |-> [kind |-> "string", url |-> ""], init |-> NoInit]

NoSpan == [opened |-> FALSE, name |-> "", attributes |-> <<>>, log |-> <<>>]

NoResult == [kind |-> "none", response |-> NoResponse, error |-> ""]

NoTransport == [kind |-> "none", response |-> NoResponse, error |-> ""]

NoReads == [clones |-> 0, original |-> 0, clone |-> 0]

\* A call on the span.  For a body attribute tag is the capture outcome's.
Ev(op, k, v, tag) == [op |-> op, k |-> k, v |-> v, tag |-> tag]

E(op, k, v) == Ev(op, k, v, "")

\* typeof bodyData === 'string' ? bodyData : JSON.stringify(bodyData)
AttributeValue(v) == IF v.ty = "string" THEN v.text ELSE Nested(v)

RECURSIVE FlattenPairs(_, _)
FlattenPairs(prefix, pairs) ==
    IF pairs = <<>> THEN <<>>
    ELSE <<E("setAttributes", prefix \o "." \o pairs[1].k, pairs[1].v)>>
            \o FlattenPairs(prefix, Tail(pairs))

\* span.setAttributes(flatten({ <side>: { headers } })); flat keeps an empty
\* object as a leaf.
SetHeaderAttributes(prefix, pairs) ==
    IF pairs = <<>> THEN <<E("setAttributes", prefix, "{}")>>
    ELSE FlattenPairs(prefix, pairs)

RECURSIVE SetClaimAttributes(_)
SetClaimAttributes(jwtClaims) ==
    IF jwtClaims = <<>> THEN <<>>
    ELSE <<E("setAttributes", jwtClaims[1].k, jwtClaims[1].v)>>
            \o SetClaimAttributes(Tail(jwtClaims))

\* Lines 127-132 and 158-163: the span calls for one side's headers.
RedactionEvents(prefix, r) ==
    SetHeaderAttributes(prefix, r.redactedHeaders) \o SetClaimAttributes(r.jwtClaims)

HeaderEvents(prefix, headers) ==
    RedactionEvents(prefix, redactSensitiveHeaders(headers))

\* init?.body as a condition.
BodyPresent(body) ==
    /\ body.shape # "none"
    /\ body.shape = "string" => body.text # ""

\* if (bodyData) span.setAttribute(name, ...) (lines 138-141, 170-173).
BodyEvents(name, bodyData) ==
    IF Truthy(bodyData.val)
    THEN <<Ev("setAttribute", name, AttributeValue(bodyData.val), bodyData.tag)>>
    ELSE <<>>

\* A catch with no finally after it: the span is left open.
FailSpanNoEnd(log, message) == log \o <<E("setStatus", "ERROR", message)>>

\* The catch and finally of the span callback (lines 179-187).
FailSpan(log, message) ==
    log \o <<E("setStatus", "ERROR", message), E("end", "", "")>>

\* Lines 176 and 186 on the normal path.
FinishSpan(log) == log \o <<E("setStatus", "OK", ""), E("end", "", "")>>

self == handles[fetch]

\* The wrapper up to the span callback (lines 107-122), u being what
\* new URL(url) gives: it throws before a span exists.
OpenSpan(input, init, url, method, u) ==
    /\ pc = "idle"
    /\ fetch # 0
    /\ args' = [input |-> input, init |-> init]
    /\ transportCalls' = <<>>
    /\ transport' = NoTransport
    /\ reads' = NoReads
    /\ IF ~u.ok
       THEN /\ pc' = "done"
            /\ span' = NoSpan
            /\ result' = [kind |-> "threw", response |-> NoResponse,
                          error |-> InvalidUrlMessage]
       ELSE /\ pc' = "request"
            /\ span' = [opened |-> TRUE, name |-> "fetch " \o method,
                        attributes |->
                            <<[k |-> "http.method", v |-> method],
                              [k |-> "http.url", v |-> url],
                              [k |-> "http.scheme",
                               v |-> SubSeq(u.protocol, 1, Len(u.protocol) - 1)],
                              [k |-> "http.host", v |-> u.host],
                              [k |-> "kubiks.otel.source", v |-> "otel-nextjs"],
                              [k |-> "kubiks.otel.version", v |-> PackageVersion],
                              [k |-> "kubiks.otel.instrumentation", v |-> "fetch-interceptor"]>>,
                        log |-> <<>>]
            /\ result' = NoResult
    /\ UNCHANGED <<lifecycleVars, fnVars>>

\* init?.method || 'GET'
MethodOf(init) == IF init.present /\ init.method # "" THEN init.method ELSE "GET"

\* A call of the installed wrapper.
CallFetch(input, init) ==
    OpenSpan(input, init, UrlOf(input), MethodOf(init), ParseUrl(UrlOf(input)))

\* The span calls of request capture (lines 125-142): headers is what
\* normalizeHeaders gives on line 126, bodyData what captureRequestBody does.
RequestEvents(options, init, headers, bodyData) ==
    (IF options.captureHeaders /\ init.headers.kind # "none"
     THEN HeaderEvents("request.headers", headers.val) ELSE <<>>)
    \o (IF options.captureRequestBody /\ BodyPresent(init.body)
        THEN BodyEvents("request.body", bodyData) ELSE <<>>)

\* Request capture and the call of the transport (lines 124-145).  An
\* exception of normalizeHeaders on line 126 reaches the catch of line 179.
RequestStep(options, init, headers, bodyData) ==
    /\ pc = "request"
    /\ IF options.captureHeaders /\ init.headers.kind # "none" /\ ~headers.ok
       THEN /\ pc' = "done"
            /\ span' = [span EXCEPT !.log = FailSpan(@, headers.msg)]
            /\ result' = [kind |-> "threw", response |-> NoResponse,
                          error |-> headers.msg]
            /\ UNCHANGED transportCalls
       ELSE /\ pc' = "transport"
            /\ span' = [span EXCEPT
                            !.log = @ \o RequestEvents(options, init, headers, bodyData)]
            /\ transportCalls' = Append(transportCalls, args)
            /\ UNCHANGED result
    /\ UNCHANGED <<args, transport, reads, lifecycleVars, fnVars>>

CaptureRequest ==
    RequestStep(self.options, args.init, normalizeHeaders(args.init.headers),
                captureRequestBody(args.init.body, args.init.headers,
                                   self.options.maxBodySize))

\* originalFetch(input, init) returns (line 145).
TransportReturns(response) ==
    /\ pc = "transport"
    /\ pc' = "response"
    /\ transport' = [kind |-> "returned", response |-> response, error |-> ""]
    /\ UNCHANGED <<args, span, transportCalls, reads, result, lifecycleVars, fnVars>>

\* originalFetch(input, init) throws: catch, finally, rethrow.
TransportThrows(error) ==
    /\ pc = "transport"
    /\ pc' = "done"
    /\ transport' = [kind |-> "threw", response |-> NoResponse, error |-> error]
    /\ span' = [span EXCEPT !.log = FailSpan(@, error)]
    /\ result' = [kind |-> "threw", response |-> NoResponse, error |-> error]
    /\ UNCHANGED <<args, transportCalls, reads, lifecycleVars, fnVars>>

BodyUsedMessage == "Response.clone: Body has already been consumed."

\* response.clone(): a second handle on the same body.
Clone(response) == [response EXCEPT !.handle = "clone"]

\* Capture given the response itself, with no clone() before it.
CapturedOriginal(response) == response

\* The handle captureResponseBody is given (lines 168-169).
CapturedHandle(response) == Clone(response)

\* What line 177 returns.
ReturnedResponse(response) == response

\* Lines 148-164: status and headers of the response.
ResponseEvents(options, response) ==
    <<E("setAttributes", "http.status_code", ToString(response.status)),
      E("setAttributes", "http.status_text", response.statusText)>>
    \o (IF options.captureHeaders
        THEN HeaderEvents("response.headers", NormalizeLoop(response.headers, <<>>))
        ELSE <<>>)

\* The clone() and text() calls of a capture through handle.
ReadsThrough(handle, bodyData) ==
    [clones |-> IF handle.handle = "clone" THEN 1 ELSE 0,
     original |-> IF bodyData.read /\ handle.handle = "original" THEN 1 ELSE 0,
     clone |-> IF bodyData.read /\ handle.handle = "clone" THEN 1 ELSE 0]

\* Response capture and the end of the span (lines 147-187), handle being
\* the response captureResponseBody is given and bodyData what it gives.
\* clone() throws on a response whose body is already used, outside any
\* capture try.
ResponseStep(options, response, handle, bodyData) ==
    /\ pc = "response"
    /\ pc' = "done"
    /\ IF options.captureResponseBody /\ response.bodyUsed
       THEN /\ span' = [span EXCEPT
                            !.log = FailSpan(@ \o ResponseEvents(options, response),
                                             BodyUsedMessage)]
            /\ result' = [kind |-> "threw", response |-> NoResponse,
                          error |-> BodyUsedMessage]
            /\ UNCHANGED reads
       ELSE /\ span' = [span EXCEPT
                            !.log = FinishSpan(@ \o ResponseEvents(options, response)
                                \o (IF options.captureResponseBody
                                    THEN BodyEvents("response.body", bodyData)
                                    ELSE <<>>))]
            /\ result' = [kind |-> "returned",
                          response |-> ReturnedResponse(response), error |-> ""]
            /\ reads' = IF options.captureResponseBody
                        THEN ReadsThrough(handle, bodyData) ELSE NoReads
    /\ UNCHANGED <<args, transportCalls, transport, lifecycleVars, fnVars>>

CaptureResponse ==
    ResponseStep(self.options, transport.response,
                 CapturedHandle(transport.response),
                 captureResponseBody(CapturedHandle(transport.response),
                                     self.options.maxBodySize))

\* The call settles (line 177 or 183, after the finally of line 186): the
\* caller has the response or the error, and the wrapper keeps nothing of
\* the call.
Settle ==
    /\ pc = "done"
    /\ pc' = "idle"
    /\ args' = NoArgs
    /\ span' = NoSpan
    /\ transportCalls' = <<>>
    /\ transport' = NoTransport
    /\ reads' = NoReads
    /\ result' = NoResult
    /\ UNCHANGED <<lifecycleVars, fnVars>>

(***************************************************************************)
(* Install and restore                                                     *)
(***************************************************************************)
MaxHandles == 3

\* new FetchInterceptor(options): save the slot, install the wrapper.
Construct(options) ==
    /\ Len(handles) < MaxHandles
    /\ handles' = Append(handles, [originalFetch |-> fetch, options |-> MergeOptions(options)])
    /\ fetch' = Len(handles) + 1

\* What restore() writes to the slot (line 362).
RestoredFetch(h) == handles[h].originalFetch

\* handle.restore()
Restore(h) ==
    /\ h \in 1..Len(handles)
    /\ fetch' = RestoredFetch(h)
    /\ restored' = restored \cup {h}
    /\ UNCHANGED <<handles, interceptorInstance, lastCall, callVars, fnVars>>

\* new FetchInterceptor(options) called directly.
ConstructDirect(options) ==
    /\ Construct(options)
    /\ UNCHANGED <<interceptorInstance, restored, lastCall, callVars, fnVars>>

\* The slot a constructor finds when no restore() precedes it.
SlotWithoutAutoRestore == fetch

\* The slot the constructor of enableFetchBodyCapture finds (lines 370-372).
SlotAfterAutoRestore ==
    IF interceptorInstance # 0 THEN RestoredFetch(interceptorInstance) ELSE fetch

enableFetchBodyCapture(options) ==
    /\ Len(handles) < MaxHandles
    /\ handles' = Append(handles, [originalFetch |-> SlotAfterAutoRestore,
                                   options |-> MergeOptions(options)])
    /\ fetch' = Len(handles) + 1
    /\ interceptorInstance' = Len(handles) + 1
    /\ restored' = IF interceptorInstance # 0
                   THEN restored \cup {interceptorInstance} ELSE restored
    /\ UNCHANGED <<lastCall, callVars, fnVars>>

disableFetchBodyCapture ==
    /\ interceptorInstance # 0
    /\ fetch' = RestoredFetch(interceptorInstance)
    /\ restored' = restored \cup {interceptorInstance}
    /\ interceptorInstance' = 0
    /\ UNCHANGED <<handles, lastCall, callVars, fnVars>>

RECURSIVE Layers(_)
\* The wrappers a call entering at slot value f runs through: each calls its
\* own saved originalFetch (line 145).
Layers(f) == IF f = 0 THEN <<>> ELSE <<f>> \o Layers(handles[f].originalFetch)

\* A call through globalThis.fetch.
Call ==
    /\ lastCall' = [made |-> TRUE, layers |-> Layers(fetch),
                     handles |-> Len(handles), restored |-> restored]
    /\ UNCHANGED <<fetch, handles, interceptorInstance, restored, callVars, fnVars>>

NoCall == [made |-> FALSE, layers |-> <<>>, handles |-> 0, restored |-> {}]

(***************************************************************************)
(* Functions checked on their own                                          *)
(***************************************************************************)
NotRun == [done |-> FALSE]

HeaderNames ==
    {"Authorization", "authorization", "X-API-Key", "My-Bearer-Id",
     "Proxy-Authorization", "Content-Type", "Accept", "Cookie"}

HeaderValues == {"", "abc", JwtSub, "h.eyJzdWIiOiJ1MSIsImFkbWluIjp0cnVlfQ.s", "Bearer a.b"}

MaxHeaders == 2

\* The entries a mapping may start with, and those it may go on with.
FirstEntries == {[k |-> k, v |-> v] : k \in HeaderNames, v \in HeaderValues}

MoreEntries ==
    {[k |-> k, v |-> v] : k \in {"authorization", "Accept", "X-API-Key"},
                          v \in {JwtSub, "abc"}}

RECURSIVE MappingsOfLength(_)
\* The mappings of n entries under distinct keys.
MappingsOfLength(n) ==
    IF n = 0 THEN {<<>>}
    ELSE { Append(m[1], m[2]) :
            m \in { x \in MappingsOfLength(n - 1)
                            \X (IF n = 1 THEN FirstEntries ELSE MoreEntries) :
                        \A i \in 1..Len(x[1]) : x[1][i].k # x[2].k } }

\* The header mappings given to the redactor: up to MaxHeaders entries.
HeaderMappings == UNION {MappingsOfLength(n) : n \in 0..MaxHeaders}

InitRedact ==
    /\ fnIn \in HeaderMappings
    /\ fnOut = NotRun

Redacted(r) ==
    /\ ~fnOut.done
    /\ fnOut' = [done |-> TRUE, redactedHeaders |-> r.redactedHeaders,
                 jwtClaims |-> r.jwtClaims, headers |-> r.headers]
    /\ UNCHANGED <<fnIn, lifecycleVars, callVars>>

\* One call of redactSensitiveHeaders on the mapping drawn.
Redact == Redacted(redactSensitiveHeaders(fnIn))

CaptureTexts ==
    {"", "0", "null", "false", "\"\"", "{\"a\":1}", " {\"a\": 1}\n", "{bad",
     "a=1&b=2", "hello", LongText}

\* A declared content type; "-" stands for none declared.
CaptureContentTypes ==
    {"-", "application/json", "Application/JSON; charset=utf-8",
     "application/x-www-form-urlencoded", "text/plain", "application/xml"}

\* The bytes of a text of this model (the inverse of DecodeUtf8).
EncodeUtf8(s) == [i \in 1..Len(s) |-> CHOOSE b \in 9..126 : CharOf(b) = SubSeq(s, i, i)]

ContentTypeHeaders(ct) ==
    IF ct = "-" THEN NoHeaders
    ELSE [kind |-> "Object", entries |-> <<H("Content-Type", ct)>>]

InitCapture ==
    /\ fnIn \in [side : {"string", "buffer", "response"}, text : CaptureTexts,
                 contentType : CaptureContentTypes,
                 maxBodySize : {SmallMaxBodySize, DefaultMaxBodySize}]
    /\ fnOut = NotRun

Captured(o) ==
    /\ ~fnOut.done
    /\ fnOut' = [done |-> TRUE, tag |-> o.tag, val |-> o.val]
    /\ UNCHANGED <<fnIn, lifecycleVars, callVars>>

\* One capture of a body text: as a request string, as a request buffer
\* holding its bytes, or as the text of a response.
Capture ==
    Captured(
        IF fnIn.side = "response"
        THEN captureResponseBody(
                Clone(Response(200,
                        ResponseHeaders(IF fnIn.contentType = "-" THEN ""
                                        ELSE fnIn.contentType, ""),
                        fnIn.text, FALSE, FALSE)),
                fnIn.maxBodySize)
        ELSE captureRequestBody(
                IF fnIn.side = "string" THEN StringBody(fnIn.text)
                ELSE Body("Uint8Array", "", <<>>, EncodeUtf8(fnIn.text)),
                ContentTypeHeaders(fnIn.contentType), fnIn.maxBodySize))

(***************************************************************************)
(* Specifications                                                          *)
(***************************************************************************)
IdleCall ==
    /\ pc = "idle"
    /\ args = NoArgs
    /\ span = NoSpan
    /\ transportCalls = <<>>
    /\ transport = NoTransport
    /\ reads = NoReads
    /\ result = NoResult

NoFunction == fnIn = <<>> /\ fnOut = NotRun

\* The module as loaded: nothing installed.
NothingInstalled ==
    /\ fetch = 0
    /\ handles = <<>>
    /\ interceptorInstance = 0
    /\ restored = {}
    /\ lastCall = NoCall

\* The options install and construct are given in the lifecycle runs.
LifecycleOptions == {<<>>, [captureHeaders |-> FALSE]}

\* The lifecycle: enable, disable, direct construction, restore on any
\* handle, and calls through the slot.
Init == NothingInstalled /\ IdleCall /\ NoFunction

Next ==
    \/ \E o \in LifecycleOptions : enableFetchBodyCapture(o)
    \/ disableFetchBodyCapture
    \/ \E o \in LifecycleOptions : ConstructDirect(o)
    \/ \E h \in 1..Len(handles) : Restore(h)
    \/ Call

Spec == Init /\ [][Next]_vars

\* The lifecycle driven through enableFetchBodyCapture and
\* disableFetchBodyCapture alone.
NextInstaller ==
    \/ \E o \in LifecycleOptions : enableFetchBodyCapture(o)
    \/ disableFetchBodyCapture
    \/ Call

SpecInstaller == Init /\ [][NextInstaller]_vars

\* Calls through one installed interceptor, under every configuration.
InitCall ==
    /\ fetch = 1
    /\ \E o \in AllOptionInputs :
            handles = <<[originalFetch |-> 0, options |-> MergeOptions(o)]>>
    /\ interceptorInstance = 1
    /\ restored = {}
    /\ lastCall = NoCall
    /\ IdleCall
    /\ NoFunction

NextCall ==
    \/ \E input \in Inputs, init \in Inits : CallFetch(input, init)
    \/ CaptureRequest
    \/ \E response \in Responses : TransportReturns(response)
    \/ \E error \in TransportErrors : TransportThrows(error)
    \/ CaptureResponse
    \/ Settle

SpecCall == InitCall /\ [][NextCall]_vars

\* redactSensitiveHeaders on every mapping of HeaderMappings.
RedactInit == NothingInstalled /\ IdleCall /\ InitRedact

SpecRedact == RedactInit /\ [][Redact]_vars

\* The capture functions on every text, declared type and size bound.
CaptureInit == NothingInstalled /\ IdleCall /\ InitCapture

SpecCapture == CaptureInit /\ [][Capture]_vars

(***************************************************************************)
(* Properties                                                              *)
(***************************************************************************)
\* The places of the span's log where op was called.
Positions(op) == {i \in 1..Len(span.log) : span.log[i].op = op}

\* The places of the span's log where the attribute name was set.
BodyAttributes(name) ==
    {i \in 1..Len(span.log) : span.log[i].op = "setAttribute" /\ span.log[i].k = name}

\* The size bound of the interceptor the call runs through.
ConfiguredMax == self.options.maxBodySize

\* C1: a call for which a span was opened ends as the transport did, the
\* transport having been called once with the call's own arguments: it
\* returns the transport's response or raises the transport's exception, and
\* no capture step keeps the transport from being called or raises.
C1_OutcomeIsTransportOutcome ==
    (pc = "done" /\ span.opened) =>
        /\ transportCalls = <<args>>
        /\ result.kind = transport.kind
        /\ result.response = transport.response
        /\ result.error = transport.error

\* C1, the case it fails on: a call that raised although the transport did
\* not, the error being one of a capture step.
C1_CaptureErrorRaised ==
    /\ pc = "done"
    /\ span.opened
    /\ result.kind = "threw"
    /\ transport.kind # "threw"

\* C2: while a call is in flight its span is open and has neither a status
\* nor an end; once the call is done the span's last two calls are the one
\* setStatus (OK when the call returned, ERROR with the error's message when
\* it raised) and then the one end, on every path.
C2_SpanEndedOnceAfterStatus ==
    /\ pc \in {"request", "transport", "response"} =>
            /\ span.opened
            /\ Positions("end") = {}
            /\ Positions("setStatus") = {}
    /\ (pc = "done" /\ span.opened) =>
            /\ Len(span.log) >= 2
            /\ Positions("end") = {Len(span.log)}
            /\ Positions("setStatus") = {Len(span.log) - 1}
            /\ span.log[Len(span.log) - 1].k =
                    (IF result.kind = "returned" THEN "OK" ELSE "ERROR")
            /\ result.kind = "threw" => span.log[Len(span.log) - 1].v = result.error

\* C2, reached: a call ended by an error of a capture step after the
\* transport had returned, its span closed by ERROR and end.
C2_CaptureErrorPathEnded ==
    /\ pc = "done"
    /\ span.opened
    /\ transport.kind = "returned"
    /\ result.kind = "threw"
    /\ Positions("end") = {Len(span.log)}
    /\ span.log[Len(span.log) - 1] = E("setStatus", "ERROR", result.error)

\* The declared content type of the capture under check contains
\* application/json.
DeclaredJson ==
    /\ fnIn.contentType # "-"
    /\ includes(toLowerCase(fnIn.contentType), "application/json")

\* The text is parsed: a buffer always is, a string or a response text when
\* its length is within the size bound.
TextIsParsed == fnIn.side = "buffer" \/ Len(fnIn.text) <= fnIn.maxBodySize

C4_AtMostOneActiveInterceptor ==
    /\ fetch = 0 \/ (fetch = interceptorInstance /\ handles[fetch].originalFetch = 0)
    /\ interceptorInstance = 0 => fetch = 0
    /\ \A h \in 1..Len(handles) : h # interceptorInstance => h \in restored
    /\ lastCall.made => Len(lastCall.layers) <= 1

\* C4, reached: a second interceptor installed over an active one, and a
\* call that ran through it alone.
C4_ReinstalledSingleLayer ==
    /\ Len(handles) >= 2
    /\ 1 \in restored
    /\ fetch = 2
    /\ lastCall.made
    /\ lastCall.layers = <<2>>

\* C5: restore() on a handle that has been restored before leaves the slot
\* and the active interceptor as they were.
C5_RestoreOfRestoredHandleIsNoOp ==
    [][\A h \in 1..Len(handles) :
            (h \in restored /\ Restore(h)) =>
                (fetch' = fetch /\ interceptorInstance' = interceptorInstance)]_vars

\* C6: a call made when restore() has been called on every handle created
\* runs through no wrapper.
C6_CallAfterAllRestoredBypasses ==
    (lastCall.made /\ lastCall.handles >= 1
        /\ lastCall.restored = 1..lastCall.handles) =>
            lastCall.layers = <<>>

\* C6, the case it fails on: every handle restored, and a call that still
\* ran through a wrapper.
C6_InterceptedAfterAllRestored ==
    /\ lastCall.made
    /\ lastCall.handles >= 1
    /\ lastCall.restored = 1..lastCall.handles
    /\ lastCall.layers # <<>>

\* The outcomes that are a marker record put in the payload's place.
MarkerTags == {"truncated", "formdata", "stream", "binary", "error"}

\* C7: a value attached as request.body or response.body is no longer than
\* maxBodySize, unless it is a marker record put in the payload's place.
C7_BodyAttributeWithinBound ==
    \A i \in BodyAttributes("request.body") \cup BodyAttributes("response.body") :
        Len(span.log[i].v) <= ConfiguredMax \/ span.log[i].tag \in MarkerTags

\* C7, the case it fails on: a buffer body longer than maxBodySize attached
\* whole.
C7_OversizedBufferAttached ==
    /\ args.init.body.shape = "Uint8Array"
    /\ Len(args.init.body.bytes) > ConfiguredMax
    /\ \E i \in BodyAttributes("request.body") :
            /\ span.log[i].tag = "parsed"
            /\ Len(span.log[i].v) > ConfiguredMax

\* The sensitivity of a key as the list states it.
OnDenylist(key) ==
    \E i \in 1..Len(SENSITIVE_HEADERS) :
        includes(toLowerCase(key), SENSITIVE_HEADERS[i])

\* C8: the output of redactSensitiveHeaders has the input's keys, in their
\* casing; under a key whose lower-case form contains a denylisted name the
\* value is [REDACTED], under any other the input's value; and the input
\* mapping is as it was.
C8_RedactionKeepsKeysAndOtherValues ==
    fnOut.done =>
        /\ Len(fnOut.redactedHeaders) = Len(fnIn)
        /\ \A i \in 1..Len(fnIn) :
                /\ fnOut.redactedHeaders[i].k = fnIn[i].k
                /\ fnOut.redactedHeaders[i].v =
                        (IF OnDenylist(fnIn[i].k) THEN "[REDACTED]" ELSE fnIn[i].v)
        /\ fnOut.headers = fnIn

\* C8, reached: a mixed-case key that contains a denylisted name, its value
\* no token, redacted beside a key that is left alone.
C8_RedactedBesideUntouched ==
    /\ fnOut.done
    /\ Len(fnIn) = 2
    /\ fnIn[1].k = "My-Bearer-Id"
    /\ fnIn[1].v = "Bearer a.b"
    /\ fnIn[2].k = "Accept"
    /\ fnOut.redactedHeaders[1] = [k |-> "My-Bearer-Id", v |-> "[REDACTED]"]
    /\ fnOut.redactedHeaders[2] = fnIn[2]
    /\ fnOut.jwtClaims = <<>>

\* The response's declared content-length exceeds the size bound.
DeclaredTooLarge(response) ==
    \E i \in 1..Len(response.headers) :
        /\ response.headers[i].k = "content-length"
        /\ ~parseInt(response.headers[i].v).nan
        /\ parseInt(response.headers[i].v).n > ConfiguredMax

\* The response's declared content type is on the binary list.
DeclaredBinary(response) ==
    \E i \in 1..Len(response.headers), j \in 1..Len(binaryTypes) :
        /\ response.headers[i].k = "content-type"
        /\ includes(toLowerCase(response.headers[i].v), binaryTypes[j])

\* C9: a call that returns gives the caller the transport's own response,
\* which the wrapper never reads.  With captureResponseBody on it is cloned
\* once and only the clone is read: not at all when the declared
\* content-length exceeds maxBodySize or the declared type is binary, once
\* otherwise.  With captureResponseBody off there is neither clone nor read.
C9_OriginalResponseReturnedUnread ==
    (pc = "done" /\ result.kind = "returned") =>
        /\ result.response = transport.response
        /\ result.response.handle = "original"
        /\ reads.original = 0
        /\ IF self.options.captureResponseBody
           THEN /\ reads.clones = 1
                /\ reads.clone =
                        (IF DeclaredTooLarge(transport.response)
                            \/ DeclaredBinary(transport.response)
                         THEN 0 ELSE 1)
           ELSE reads = NoReads

\* C9, reached: a call that returned the transport's response after its
\* clone had been read.
C9_CloneReadOriginalReturned ==
    /\ pc = "done"
    /\ result.kind = "returned"
    /\ result.response = transport.response
    /\ reads = [clones |-> 1, original |-> 0, clone |-> 1]

\* C10: once request capture is over, with captureRequestBody on and a body
\* in init, the span has exactly one request.body attribute, holding what
\* captureRequestBody gives for that body (itself when a string, its JSON
\* text otherwise).
C10_RequestBodyAlwaysAttached ==
    (/\ pc \in {"transport", "response", "done"}
     /\ transportCalls # <<>>
     /\ self.options.captureRequestBody
     /\ args.init.present
     /\ args.init.body.shape # "none") =>
        \E i \in 1..Len(span.log) :
            /\ BodyAttributes("request.body") = {i}
            /\ span.log[i].v =
                    AttributeValue(captureRequestBody(args.init.body, args.init.headers,
                                                      ConfiguredMax).val)

\* C10, the case it fails on: the body "0", whose outcome is the number 0,
\* and no request.body attribute on the span.
C10_FalsyOutcomeDropped ==
    /\ pc = "transport"
    /\ self.options.captureRequestBody
    /\ args.init.body = StringBody("0")
    /\ BodyAttributes("request.body") = {}

====
